---- MODULE Spec2Model ----
(***************************************************************************)
(* Painel Leads Lite: the browser client (static/js/app.js and its         *)
(* historical variants).  The model covers the selection store             *)
(* (_uniqPush / _removeValue), the debounced fetch orchestrator            *)
(* (loadLeadsAndKpisDebounced, loadLeadsAndKpis), the options refresh      *)
(* (loadOptions), the upload and reload handlers, and the view they write  *)
(* (table, KPI labels, status line, upload status).                        *)
(*                                                                         *)
(* The repository holds five variants of app.js; `variant` selects one:    *)
(*   "delim"      src/static/js/app.js    1 ..  465  ("||" text fields)     *)
(*   "dropdown"   src/static/js/app.js  467 .. 1101  (chips + dropdown)     *)
(*   "tomselect"  src/static/js/app.js 1103 .. 1350  (TomSelect)            *)
(*   "tomselect2" src/unnamed/part_000   31 ..  279  (TomSelect, fixed)     *)
(*   "modal"      src/unnamed/part_001    1 ..  652  (chips + modals)       *)
(*                                                                         *)
(* Strings are sequences of characters, so that trim and toUpperCase are   *)
(* computed and not assumed.  The scalar fields #fOrigem, #fIni and #fFim  *)
(* go through the same handlers and the same code as #fStatus and are      *)
(* represented by #fStatus.                                                *)
(***************************************************************************)
EXTENDS Integers, Sequences, FiniteSets, TLC

(***************************************************************************)
(* Bounds                                                                  *)
(***************************************************************************)
MaxLen == 2          \* longest text a user types or the server lists
MaxCycles == 2       \* load cycles issued in one behaviour
MaxOptReqs == 2      \* /api/options requests issued in one behaviour
MaxUploads == 1      \* upload clicks in one behaviour
MaxTimerIds == 2     \* timer handles the browser hands out at one time
DD_BATCH == 1        \* rows per dropdown batch; 350 in the source, scaled down
                     \* with the candidate lists so that a list needs two batches

Variants == {"delim", "dropdown", "tomselect", "tomselect2", "modal"}
ChipVariants == {"dropdown", "modal"}
TsVariants == {"tomselect", "tomselect2"}
Kinds == {"curso", "polo"}

(***************************************************************************)
(* Strings                                                                 *)
(***************************************************************************)
Chars == {"a", "A", " "}

RECURSIVE SeqsUpTo(_)
SeqsUpTo(n) ==
  IF n = 0 THEN {<<>>}
  ELSE LET S == SeqsUpTo(n - 1)
       IN S \cup {Append(s, c) : s \in {x \in S : Len(x) = n - 1}, c \in Chars}

Texts == SeqsUpTo(MaxLen)

\* String.prototype.toUpperCase, per character; "a_acute" and "A_acute" are
\* the letter a with an acute accent, lower and upper case
UpperChar(c) ==
  IF c = "a" THEN "A" ELSE IF c = "a_acute" THEN "A_acute" ELSE c
toUpperCase(s) == [i \in 1..Len(s) |-> UpperChar(s[i])]

\* normalize("NFD").replace(/[\u0300-\u036f]/g, ""), per character
StripChar(c) ==
  IF c = "a_acute" THEN "a" ELSE IF c = "A_acute" THEN "A" ELSE c
stripDiacritics(s) == [i \in 1..Len(s) |-> StripChar(s[i])]

\* String.prototype.trim
RECURSIVE trimStart(_)
trimStart(s) ==
  IF s = <<>> THEN s
  ELSE IF Head(s) = " " THEN trimStart(Tail(s)) ELSE s

RECURSIVE trimEnd(_)
trimEnd(s) ==
  IF s = <<>> THEN s
  ELSE IF s[Len(s)] = " " THEN trimEnd(SubSeq(s, 1, Len(s) - 1)) ELSE s

trim(s) == trimEnd(trimStart(s))

(***************************************************************************)
(* Selection store: the chips                                              *)
(***************************************************************************)
\* arr.some((x) => String(x).toUpperCase() === v.toUpperCase())
SomeUpperEq(arr, v) ==
  \E i \in 1..Len(arr) : toUpperCase(arr[i]) = toUpperCase(v)

\* _uniqPush without the case folding
UniqPushCaseSensitive(arr, value) ==
  LET v == trim(value)
  IN IF v = <<>> THEN arr
     ELSE IF \E i \in 1..Len(arr) : arr[i] = v THEN arr ELSE Append(arr, v)

_uniqPush(arr, value) ==
  LET v == trim(value)
  IN IF v = <<>> THEN arr
     ELSE IF ~SomeUpperEq(arr, v) THEN Append(arr, v) ELSE arr

\* arr.findIndex((x) => String(x).trim().toUpperCase() === v); 0 when none
FindIndexTrimUpper(arr, v) ==
  LET hits == {i \in 1..Len(arr) : toUpperCase(trim(arr[i])) = v}
  IN IF hits = {} THEN 0 ELSE CHOOSE i \in hits : \A j \in hits : i <= j

\* arr.splice(idx, 1)
Splice1(arr, idx) ==
  [i \in 1..(Len(arr) - 1) |-> IF i < idx THEN arr[i] ELSE arr[i + 1]]

\* a _removeValue that looks for the value as it is written
RemoveValueExact(arr, value) ==
  LET hits == {i \in 1..Len(arr) : arr[i] = value}
  IN IF hits = {} THEN arr
     ELSE Splice1(arr, CHOOSE i \in hits : \A j \in hits : i <= j)

_removeValue(arr, value) ==
  LET v == toUpperCase(trim(value))
      idx == FindIndexTrimUpper(arr, v)
  IN IF idx >= 1 THEN Splice1(arr, idx) ELSE arr

\* selected.some((x) => String(x).trim().toUpperCase() === String(v).trim().toUpperCase())
IsOn(selected, v) ==
  \E i \in 1..Len(selected) :
     toUpperCase(trim(selected[i])) = toUpperCase(trim(v))

(***************************************************************************)
(* Filter compiler: params -> URL search parameters                        *)
(***************************************************************************)
\* Array.prototype.join
RECURSIVE Join(_, _)
Join(parts, sep) ==
  IF parts = <<>> THEN <<>>
  ELSE IF Len(parts) = 1 THEN parts[1]
  ELSE parts[1] \o sep \o Join(Tail(parts), sep)

\* String.prototype.split("||")
RECURSIVE SplitBars(_, _)
SplitBars(s, acc) ==
  IF s = <<>> THEN <<acc>>
  ELSE IF Len(s) >= 2 /\ s[1] = "|" /\ s[2] = "|"
       THEN <<acc>> \o SplitBars(SubSeq(s, 3, Len(s)), <<>>)
       ELSE SplitBars(Tail(s), Append(acc, Head(s)))

cleanMultiRaw(v) ==
  LET raw == trim(v)
      parts == SplitBars(raw, <<>>)
      trimmed == [i \in 1..Len(parts) |-> trim(parts[i])]
      kept == SelectSeq(trimmed, LAMBDA x : x # <<>>)
  IN IF raw = <<>> THEN <<>> ELSE Join(kept, <<"|", "|">>)

\* a parameter value is a string (arr = FALSE) or an array of strings
Scalar(k, s) == [k |-> k, arr |-> FALSE, v |-> s]
Array(k, a) == [k |-> k, arr |-> TRUE, v |-> a]

\* url.searchParams.append(k, s) for every non-empty trimmed item
RECURSIVE AppendItems(_, _)
AppendItems(k, items) ==
  IF items = <<>> THEN <<>>
  ELSE LET s == trim(Head(items))
       IN (IF s # <<>> THEN << <<k, s>> >> ELSE <<>>) \o AppendItems(k, Tail(items))

\* Object.entries(params).forEach(...) of apiGet, one entry
UrlEntry(var, p) ==
  IF var \in TsVariants
  THEN IF ~p.arr /\ p.v = <<>> THEN <<>>
       ELSE << <<p.k, IF p.arr THEN Join(p.v, <<" ", "|", "|", " ">>) ELSE p.v>> >>
  ELSE IF p.arr /\ var \in ChipVariants THEN AppendItems(p.k, p.v)
  ELSE LET s == trim(p.v) IN IF s # <<>> THEN << <<p.k, s>> >> ELSE <<>>

RECURSIVE UrlEntries(_, _)
UrlEntries(var, params) ==
  IF params = <<>> THEN <<>>
  ELSE UrlEntry(var, Head(params)) \o UrlEntries(var, Tail(params))

\* apiGet that forgets the multi-value parameters of the KPI request
ApiGetUrlKpisNoArrays(var, path, params) ==
  [path |-> path,
   query |-> UrlEntries(var, IF path = "/api/kpis"
                             THEN SelectSeq(params, LAMBDA p : ~p.arr)
                             ELSE params)]

\* the URL apiGet fetches: url.toString()
ApiGetUrl(var, path, params) ==
  [path |-> path, query |-> UrlEntries(var, params)]

(***************************************************************************)
(* Chips and the candidate dropdown (dropdown variant), the modal list     *)
(* (modal variant)                                                         *)
(***************************************************************************)
\* renderChips(kind): the hidden field and the chips of the box, in list
\* order; an empty box shows "Nenhum selecionado."
renderChips(list) == [hidden |-> Join(list, <<"|", "|">>), box |-> list]

\* String.prototype.includes
Includes(s, sub) ==
  \E i \in 0..(Len(s) - Len(sub)) : SubSeq(s, i + 1, i + Len(sub)) = sub

\* ddFilterList(kind, qUpper), all = ddAll(kind)
\* a ddFilterList that leaves out the empty candidates for every query
DdFilterDropsBlank(all, qUpper) ==
  SelectSeq(all, LAMBDA v : v # <<>> /\ (qUpper = <<>> \/ Includes(toUpperCase(v), qUpper)))

ddFilterList(all, qUpper) ==
  IF qUpper = <<>> THEN all
  ELSE SelectSeq(all, LAMBDA v : v # <<>> /\ Includes(toUpperCase(v), qUpper))

\* the filter of buildModalList, q = searchEl.value.trim().toUpperCase()
ModalFilter(values, q) ==
  SelectSeq(values, LAMBDA v : v # <<>> /\ (q = <<>> \/ Includes(toUpperCase(v), q)))

\* buildModalList(kind): the placeholder or one checkbox row per candidate
buildModalList(values, selected, search) ==
  LET filtered == ModalFilter(values, toUpperCase(trim(search)))
  IN [empty |-> filtered = <<>>,
      rows |-> [i \in 1..Len(filtered) |->
                  [v |-> filtered[i], on |-> IsOn(selected, filtered[i])]]]

\* ddMakeRow(kind, v): the row keeps the marker it was created with
ddMakeRow(selected, v) == [v |-> v, on |-> IsOn(selected, v)]

\* state.dd[kind] with the children of the dropdown element and the timer
\* of the debounced input listener, before the first event
DdInit ==
  [q |-> <<>>, idx |-> 0, filtered |-> <<>>, open |-> FALSE,
   rows |-> <<>>, empty |-> FALSE, timer |-> FALSE]

\* ddRenderNext(kind) on st = state.dd[kind] and the dropdown's children
\* a ddRenderNext that never empties the element before it appends
RenderNextNoClear(st, selected) ==
  IF st.filtered = <<>>
  THEN [st EXCEPT !.rows = <<>>, !.empty = TRUE, !.idx = 0]
  ELSE LET end == IF st.idx + DD_BATCH < Len(st.filtered)
                  THEN st.idx + DD_BATCH ELSE Len(st.filtered)
           batch == [i \in 1..(end - st.idx) |->
                       ddMakeRow(selected, st.filtered[st.idx + i])]
       IN [st EXCEPT !.rows = st.rows \o batch, !.idx = end]

\* a ddRenderNext without the branch for an empty filtered sequence
RenderNextNoPlaceholder(st, selected) ==
  LET end == IF st.idx + DD_BATCH < Len(st.filtered)
             THEN st.idx + DD_BATCH ELSE Len(st.filtered)
      kept == IF st.idx = 0 THEN <<>> ELSE st.rows
      batch == [i \in 1..(end - st.idx) |->
                  ddMakeRow(selected, st.filtered[st.idx + i])]
  IN [st EXCEPT !.rows = kept \o batch,
                !.empty = IF st.idx = 0 THEN FALSE ELSE st.empty,
                !.idx = end]

ddRenderNext(st, selected) ==
  IF st.filtered = <<>>
  THEN [st EXCEPT !.rows = <<>>, !.empty = TRUE, !.idx = 0]
  ELSE LET end == IF st.idx + DD_BATCH < Len(st.filtered)
                  THEN st.idx + DD_BATCH ELSE Len(st.filtered)
           kept == IF st.idx = 0 THEN <<>> ELSE st.rows
           batch == [i \in 1..(end - st.idx) |->
                       ddMakeRow(selected, st.filtered[st.idx + i])]
       IN [st EXCEPT !.rows = kept \o batch,
                     !.empty = IF st.idx = 0 THEN FALSE ELSE st.empty,
                     !.idx = end]

\* ddRebuild(kind) with the input holding inputValue
ddRebuild(st, all, selected, inputValue) ==
  LET q == toUpperCase(trim(inputValue))
  IN ddRenderNext([st EXCEPT !.q = q, !.filtered = ddFilterList(all, q),
                             !.idx = 0], selected)

\* the scroll listener of ddAttachScroll; nearBottom is the geometry test
\* a scroll listener that renders whether the dropdown is open or not
ScrollIgnoresOpen(st, selected, nearBottom) ==
  IF nearBottom /\ st.idx < Len(st.filtered) THEN ddRenderNext(st, selected) ELSE st

ddScroll(st, selected, nearBottom) ==
  IF ~st.open THEN st
  ELSE IF nearBottom /\ st.idx < Len(st.filtered) THEN ddRenderNext(st, selected)
  ELSE st

(***************************************************************************)
(* The server, as far as the client sees it                                *)
(***************************************************************************)
\* candidate values GET /api/options returns when the data is at version d
ServerOptions(d) ==
  IF d < 0 THEN << <<>>, <<"a">> >>      \* a lead with an empty curso / polo
  ELSE IF d = 0 THEN << <<"a">> >> ELSE << <<"a">>, <<"A", " ">> >>

Fails == {"reason", "http"}   \* error payload with a message, or none
FieldTexts == {<<>>, <<"a", " ">>}

(***************************************************************************)
(* State                                                                   *)
(***************************************************************************)
VARIABLES
  variant,       \* which app.js is loaded
  fStatus,       \* value of the #fStatus input
  sel,           \* state.filters.curso_list / polo_list (TomSelect items)
  options,       \* state.options.curso / polo (TomSelect options)
  db,            \* version of the server's data
  timers,        \* armed timers of the browser: [id]; one may expire at any time
  t,             \* the handle kept by loadLeadsAndKpisDebounced (0 = null)
  lastFired,     \* the timer armed by the last debounced call has expired
  burstCalls,    \* debounced calls of the current burst: 0, 1, or 2 for more
  burstRuns,     \* runs fired by the debounce since the current burst began
  epoch,         \* number of load cycles issued so far
  cycles,        \* load cycles with a response or a continuation pending
  optCount,      \* number of options requests issued so far
  optReqs,       \* options requests in flight
  uploadCount,   \* number of uploads posted so far
  posts,         \* upload requests in flight
  btnDisabled,   \* #btnUpload.disabled
  table,         \* #tbl tbody
  kpis,          \* #kpiCount, #kpiTopStatus, #kpiLastDate
  statusLine,    \* #statusLine
  uploadStatus,  \* #uploadStatus
  tableBy,       \* the cycle whose renderTable call wrote the table
  kpisBy,        \* the cycle whose renderKpis call wrote the KPI labels
  input,         \* value of the #fCurso / #fPolo text inputs
  dd,            \* state.dd, the children of #ddCursos / #ddPolos, input timer
  chips,         \* #fCursoMulti / #fPoloMulti and #cursoChipBox / #poloChipBox
  probe          \* a function of the program applied to drawn arguments

vars == <<variant, fStatus, sel, options, db, timers, t, lastFired, burstCalls,
          burstRuns,
          epoch, cycles, optCount, optReqs, uploadCount, posts, btnDisabled,
          table, kpis, statusLine, uploadStatus, tableBy, kpisBy,
          input, dd, chips, probe>>

filterVars == <<fStatus, sel>>
timerVars == <<timers, t, lastFired, burstCalls, burstRuns>>
cycleVars == <<epoch, cycles>>
optVars == <<optCount, optReqs>>
postVars == <<uploadCount, posts, btnDisabled>>
dataView == <<table, kpis, tableBy, kpisBy>>
uiVars == <<input, dd, chips>>
programVars == <<variant, filterVars, options, db, timerVars, cycleVars, optVars,
                 postVars, dataView, statusLine, uploadStatus, uiVars>>

NoUrl == [path |-> "", query |-> <<>>]
Msg(text, cls, detail) == [text |-> text, cls |-> cls, detail |-> detail]

\* a call of a function of the program: its name, its two arguments and
\* what it returned
Call(fn, a, b, out) == [fn |-> fn, a |-> a, b |-> b, out |-> out]
NoCall == Call("none", <<>>, <<>>, <<>>)

\* the state after the synchronous part of the DOMContentLoaded handler:
\* handlers bound, chips rendered, loadOptions() awaiting its response
InitProgram ==
  /\ variant \in Variants
  /\ fStatus = <<>>
  /\ sel = [k \in Kinds |-> <<>>]
  /\ options = [k \in Kinds |-> <<>>]
  /\ db = 0
  /\ timers = {}
  /\ t = 0
  /\ lastFired = TRUE
  /\ burstCalls = 0
  /\ burstRuns = 0
  /\ epoch = 0
  /\ cycles = {}
  /\ optCount = 1
  /\ optReqs = {[id |-> 1, by |-> "init", awaited |-> TRUE]}
  /\ uploadCount = 0
  /\ posts = {}
  /\ btnDisabled = FALSE
  /\ table = [html |-> "initial", url |-> NoUrl]
  /\ kpis = [html |-> "initial", url |-> NoUrl]
  /\ statusLine = Msg("initial", "", "")
  /\ uploadStatus = Msg("initial", "", "")
  /\ tableBy = 0
  /\ kpisBy = 0
  /\ input = [k \in Kinds |-> <<>>]
  /\ dd = [k \in Kinds |-> DdInit]
  /\ chips = [k \in Kinds |-> renderChips(<<>>)]

Init == InitProgram /\ probe = NoCall

(***************************************************************************)
(* Debounce: loadLeadsAndKpisDebounced = debounce(loadLeadsAndKpis, 250)   *)
(***************************************************************************)
FreeIds(armed) == {i \in 1..MaxTimerIds : \A x \in armed : x.id # i}
MinOf(S) == CHOOSE i \in S : \A j \in S : i <= j

\* clearTimeout(h)
clearTimeout(armed, h) == {x \in armed : x.id # h}

\* a debounce that arms a new timer without cancelling the armed one
DebounceNoClear(armed, h) == armed

\* the timers left armed by the clearTimeout(t) of the debounced wrapper
DebounceClear(armed, h) == clearTimeout(armed, h)

\* loadLeadsAndKpisDebounced(): clearTimeout(t); t = setTimeout(fn, delay)
DebouncedCall ==
  LET kept == DebounceClear(timers, t)
      id == MinOf(FreeIds(kept))
  IN /\ FreeIds(kept) # {}
     /\ timers' = kept \cup {[id |-> id]}
     /\ t' = id
     /\ burstCalls' = IF lastFired THEN 1
                      ELSE IF burstCalls < 2 THEN burstCalls + 1 ELSE burstCalls
     /\ burstRuns' = IF lastFired THEN 0 ELSE burstRuns
     /\ lastFired' = FALSE

(***************************************************************************)
(* loadLeadsAndKpis: the synchronous part, up to the await                 *)
(***************************************************************************)
\* readFiltersFromUI + params (buildParams, getFilters)
Params(var, fS, s) ==
  IF var = "delim" THEN << Scalar("status", cleanMultiRaw(fS)) >>
  ELSE IF var \in ChipVariants
  THEN << Scalar("status", trim(fS)), Array("curso", s["curso"]),
          Array("polo", s["polo"]) >>
  ELSE << Scalar("status", fS), Array("curso", s["curso"]),
          Array("polo", s["polo"]) >>

\* statusLine.textContent = "Carregando..." (showToast in tomselect2)
StartStatus(var, sl) ==
  IF var = "tomselect2" THEN Msg("loading", "", "")
  ELSE [sl EXCEPT !.text = "loading", !.detail = ""]

NewCycle(id, by, then, fS, s) ==
  [id |-> id, upload |-> (by = "upload"), then |-> then,
   leadsUrl |-> ApiGetUrl(variant, "/api/leads", Params(variant, fS, s)),
   kpisUrl |-> ApiGetUrl(variant, "/api/kpis", Params(variant, fS, s)),
   leads |-> "wait", kpis |-> "wait", done |-> FALSE]

\* a call of loadLeadsAndKpis() with the UI holding fS and s and the status
\* line holding sl; `then` is what the caller does when the call settles
LoadStart(by, then, fS, s, sl) ==
  /\ epoch < MaxCycles
  /\ epoch' = epoch + 1
  /\ cycles' = cycles \cup {NewCycle(epoch + 1, by, then, fS, s)}
  /\ statusLine' = StartStatus(variant, sl)

(***************************************************************************)
(* User events on the filters                                              *)
(***************************************************************************)
Elems(q) == {q[i] : i \in 1..Len(q)}
EmptySel == [k \in Kinds |-> <<>>]

\* change / keyup on #fStatus (bindFilters); the TomSelect variants bind no
\* listener to the scalar fields
FieldChange(v) ==
  /\ fStatus' = v
  /\ IF variant \in TsVariants
     THEN fStatus # v /\ UNCHANGED timerVars
     ELSE DebouncedCall
  /\ UNCHANGED <<variant, probe, sel, options, db, cycleVars, optVars, postVars,
                 dataView, statusLine, uploadStatus, uiVars>>

\* mousedown on a row of the open dropdown showing v (ddMakeRow): the row
\* acts on the marker it was created with, then renderChips and ddRebuild
RowToggle(k, v) ==
  /\ variant = "dropdown"
  /\ dd[k].open
  /\ \E i \in 1..Len(dd[k].rows) :
        /\ dd[k].rows[i].v = v
        /\ sel' = [sel EXCEPT ![k] = IF dd[k].rows[i].on
                                      THEN _removeValue(sel[k], v)
                                      ELSE _uniqPush(sel[k], v)]
  /\ chips' = [chips EXCEPT ![k] = renderChips(sel'[k])]
  /\ dd' = [dd EXCEPT ![k] = ddRebuild(dd[k], options[k], sel'[k], input[k])]
  /\ DebouncedCall
  /\ UNCHANGED <<variant, probe, fStatus, options, db, cycleVars, optVars, postVars,
                 dataView, statusLine, uploadStatus, input>>

\* Enter in #fCurso / #fPolo holding `text` (bindDropdown; bindFilters +
\* addFromInput in the modal variant).  When the input does not hold `text`
\* yet, the user types it first, which arms the input timer of the dropdown.
EnterKey(k, text) ==
  /\ variant \in ChipVariants
  /\ variant = "dropdown" => trim(text) # <<>>
  /\ sel' = [sel EXCEPT ![k] = _uniqPush(sel[k], text)]
  /\ input' = [input EXCEPT ![k] = IF trim(text) = <<>> THEN text ELSE <<>>]
  /\ chips' = [chips EXCEPT ![k] = renderChips(sel'[k])]
  /\ dd' = IF variant = "dropdown"
            THEN [dd EXCEPT ![k] =
                    ddRebuild([dd[k] EXCEPT !.timer = (@ \/ text # input[k])],
                              options[k], sel'[k], <<>>)]
            ELSE dd
  /\ DebouncedCall
  /\ UNCHANGED <<variant, probe, fStatus, options, db, cycleVars, optVars, postVars,
                 dataView, statusLine, uploadStatus>>

\* click on the chip of v (renderChips); the dropdown variant also calls
\* ddRebuild
ChipClick(k, v) ==
  /\ variant \in ChipVariants
  /\ v \in Elems(chips[k].box)
  /\ sel' = [sel EXCEPT ![k] = _removeValue(sel[k], v)]
  /\ chips' = [chips EXCEPT ![k] = renderChips(sel'[k])]
  /\ dd' = IF variant = "dropdown"
            THEN [dd EXCEPT ![k] = ddRebuild(dd[k], options[k], sel'[k], input[k])]
            ELSE dd
  /\ UNCHANGED <<variant, probe, fStatus, options, db, timerVars, cycleVars, optVars,
                 postVars, dataView, statusLine, uploadStatus, input>>

\* the subsequences of q: what the checked boxes of a list can hold
RECURSIVE SubSeqs(_)
SubSeqs(q) ==
  IF q = <<>> THEN {<<>>}
  ELSE LET R == SubSeqs(Tail(q)) IN R \cup {<<Head(q)>> \o r : r \in R}

\* "Aplicar" in the modal: applyModalSelection, closeModal, debounced load
ModalApply(k, chosen) ==
  /\ variant = "modal"
  /\ chosen \in SubSeqs(options[k])
  /\ sel' = [sel EXCEPT ![k] = chosen]
  /\ chips' = [chips EXCEPT ![k] = renderChips(chosen)]
  /\ DebouncedCall
  /\ UNCHANGED <<variant, probe, fStatus, options, db, cycleVars, optVars, postVars,
                 dataView, statusLine, uploadStatus, input, dd>>

\* "Limpar" in the modal: clearModalSelection
ModalClear(k) ==
  /\ variant = "modal"
  /\ sel[k] # <<>>
  /\ sel' = [sel EXCEPT ![k] = <<>>]
  /\ chips' = [chips EXCEPT ![k] = renderChips(<<>>)]
  /\ UNCHANGED <<variant, probe, fStatus, options, db, timerVars, cycleVars, optVars,
                 postVars, dataView, statusLine, uploadStatus, input, dd>>

\* TomSelect: the user checks or unchecks an option; onChange fires
TsToggle(k, v) ==
  /\ variant \in TsVariants
  /\ v \in Elems(options[k])
  /\ sel' = [sel EXCEPT ![k] = IF v \in Elems(sel[k])
                                THEN SelectSeq(sel[k], LAMBDA x : x # v)
                                ELSE Append(sel[k], v)]
  /\ DebouncedCall
  /\ UNCHANGED <<variant, probe, fStatus, options, db, cycleVars, optVars, postVars,
                 dataView, statusLine, uploadStatus, uiVars>>

\* click on #btnApply
Apply ==
  /\ LoadStart("apply", "none", fStatus, sel, statusLine)
  /\ UNCHANGED <<variant, probe, filterVars, options, db, timerVars, optVars,
                 postVars, dataView, uploadStatus, uiVars>>

\* click on #btnClear.  TomSelect's clear() fires onChange when it removes
\* an item, which arms the debounce before the immediate load.
Clear ==
  /\ fStatus' = <<>>
  /\ sel' = IF variant = "delim" THEN sel ELSE EmptySel
  /\ IF variant \in TsVariants
     THEN /\ IF sel # EmptySel THEN DebouncedCall ELSE UNCHANGED timerVars
          /\ UNCHANGED uploadStatus
          /\ LoadStart("clear", "none", <<>>, EmptySel, statusLine)
     ELSE /\ UNCHANGED timerVars
          /\ uploadStatus' = Msg("", "muted", "")
          /\ LoadStart("clear", "none", <<>>, sel', Msg("cleared", "", ""))
  /\ IF variant \in ChipVariants
     THEN /\ input' = [k \in Kinds |-> <<>>]
          /\ chips' = [k \in Kinds |-> renderChips(<<>>)]
          /\ dd' = IF variant = "dropdown"
                    THEN [k \in Kinds |-> [dd[k] EXCEPT !.open = FALSE]]
                    ELSE dd
     ELSE UNCHANGED uiVars
  /\ UNCHANGED <<variant, probe, options, db, optVars, postVars, dataView>>

(***************************************************************************)
(* User events on the dropdown                                             *)
(***************************************************************************)
\* focus on #fCurso / #fPolo (bindDropdown): ddOpen, ddRebuild
DdFocus(k) ==
  /\ variant = "dropdown"
  /\ dd' = [dd EXCEPT ![k] = ddRebuild([dd[k] EXCEPT !.open = TRUE],
                                        options[k], sel[k], input[k])]
  /\ UNCHANGED <<variant, probe, filterVars, options, db, timerVars, cycleVars, optVars,
                 postVars, dataView, statusLine, uploadStatus, input, chips>>

\* the user edits the text of #fCurso / #fPolo: the input event arms the
\* debounced listener of the dropdown (the modal variant binds none)
DdType(k, text) ==
  /\ variant \in ChipVariants
  /\ text # input[k]
  /\ input' = [input EXCEPT ![k] = text]
  /\ dd' = IF variant = "dropdown" THEN [dd EXCEPT ![k].timer = TRUE] ELSE dd
  /\ UNCHANGED <<variant, probe, filterVars, options, db, timerVars, cycleVars, optVars,
                 postVars, dataView, statusLine, uploadStatus, chips>>

\* the timer of the debounced input listener expires: ddOpen, ddRebuild
DdInputFire(k) ==
  /\ variant = "dropdown"
  /\ dd[k].timer
  /\ dd' = [dd EXCEPT ![k] = ddRebuild([dd[k] EXCEPT !.timer = FALSE, !.open = TRUE],
                                        options[k], sel[k], input[k])]
  /\ UNCHANGED <<variant, probe, filterVars, options, db, timerVars, cycleVars, optVars,
                 postVars, dataView, statusLine, uploadStatus, input, chips>>

\* a scroll event on the dropdown element (ddAttachScroll)
DdScroll(k, nearBottom) ==
  /\ variant = "dropdown"
  /\ dd' = [dd EXCEPT ![k] = ddScroll(dd[k], sel[k], nearBottom)]
  /\ UNCHANGED <<variant, probe, filterVars, options, db, timerVars, cycleVars, optVars,
                 postVars, dataView, statusLine, uploadStatus, input, chips>>

\* Escape in the input, or a mousedown outside the input and the dropdown
DdClose(k) ==
  /\ variant = "dropdown"
  /\ dd[k].open
  /\ dd' = [dd EXCEPT ![k].open = FALSE]
  /\ UNCHANGED <<variant, probe, filterVars, options, db, timerVars, cycleVars, optVars,
                 postVars, dataView, statusLine, uploadStatus, input, chips>>

(***************************************************************************)
(* The debounce timer expires                                             *)
(***************************************************************************)
\* a read of the form that misses the scalar field
FiltersReadNoField(fS, s) == [status |-> <<>>, sel |-> s]

\* what loadLeadsAndKpis reads when it is called: the field and the
\* selections as they are at the call
FiltersRead(fS, s) == [status |-> fS, sel |-> s]

\* the timer callback: () => fn(...args)
TimerFire(x) ==
  /\ x \in timers
  /\ timers' = timers \ {x}
  /\ lastFired' = (lastFired \/ x.id = t)
  /\ burstRuns' = burstRuns + 1
  /\ LET f == FiltersRead(fStatus, sel)
     IN LoadStart("debounce", "none", f.status, f.sel, statusLine)
  /\ UNCHANGED <<variant, probe, filterVars, options, db, t, burstCalls, optVars,
                 postVars, dataView, uploadStatus, uiVars>>

(***************************************************************************)
(* loadLeadsAndKpis: after await Promise.all([...])                        *)
(***************************************************************************)
Oks == {"ok0", "ok1"}            \* a records response with no row, with rows
Placeholder == [html |-> "placeholder", url |-> NoUrl]

\* e.message of a failed apiGet: the delimiter and TomSelect variants read
\* the payload, the chip variants throw `HTTP ${res.status}`
ApiGetMessage(var, fk) == IF var \in ChipVariants THEN "http" ELSE fk

View == [table |-> table, kpis |-> kpis, statusLine |-> statusLine,
         tableBy |-> tableBy, kpisBy |-> kpisBy, btnDisabled |-> btnDisabled]

\* renderTable(rows): the rows of the response; for no row the delimiter
\* and chip variants write the row "Nenhum lead encontrado.", the TomSelect
\* variants write rows.map(...).join(""), an empty tbody
renderTable(var, rows, url) ==
  IF rows = "ok1" THEN [html |-> "rows", url |-> url]
  ELSE IF var \in TsVariants THEN [html |-> "none", url |-> NoUrl]
  ELSE Placeholder

\* try branch: renderTable(rows); renderKpis(kpis); status line
RenderOk(var, c, v) ==
  [v EXCEPT
     !.table = renderTable(var, c.leads, c.leadsUrl),
     !.kpis = [html |-> "values", url |-> c.kpisUrl],
     !.statusLine = IF var = "tomselect2" THEN Msg("loaded", "", c.leads)
                    ELSE [v.statusLine EXCEPT !.text = "loaded", !.detail = c.leads],
     !.tableBy = c.id,
     !.kpisBy = c.id]

\* a catch branch that renders what the request that succeeded returned
CatchRendersPartial(var, c, fk, v) ==
  [v EXCEPT
     !.table = IF c.leads = "ok1" THEN [html |-> "rows", url |-> c.leadsUrl]
               ELSE Placeholder,
     !.kpis = IF c.kpis = "ok" THEN [html |-> "values", url |-> c.kpisUrl]
              ELSE v.kpis,
     !.statusLine = Msg("loadError", "error", "generic"),
     !.tableBy = c.id]

\* catch branch
Catch(var, c, fk, v) ==
  IF var = "delim"
  THEN [v EXCEPT !.table = renderTable(var, "ok0", NoUrl),
                 !.kpis = [html |-> "zero", url |-> NoUrl],
                 !.statusLine = Msg("loadError", "error", ApiGetMessage(var, fk)),
                 !.tableBy = c.id,
                 !.kpisBy = c.id]
  ELSE IF var \in ChipVariants
  THEN [v EXCEPT !.table = renderTable(var, "ok0", NoUrl),
                 !.statusLine = Msg("loadError", "error", "generic"),
                 !.tableBy = c.id]
  ELSE [v EXCEPT !.statusLine = Msg("loadError", "error", ApiGetMessage(var, fk))]

\* what the caller awaiting loadLeadsAndKpis() does next: the upload handler
\* shows its last toast and runs its finally block
AfterLoad(c, v) ==
  IF c.then = "upload"
  THEN [v EXCEPT !.statusLine = Msg("panelUpdated", "", ""),
                 !.btnDisabled = FALSE]
  ELSE v

SetView(v) ==
  /\ table' = v.table
  /\ kpis' = v.kpis
  /\ statusLine' = v.statusLine
  /\ tableBy' = v.tableBy
  /\ kpisBy' = v.kpisBy
  /\ btnDisabled' = v.btnDisabled

\* Promise.all: fulfilled when both are, rejected by the first rejection;
\* c2 is cycle c with the response that has just arrived, fk its failure
Arrive(c, c2, fk) ==
  LET ok == c2.leads \in Oks /\ c2.kpis = "ok"
      failed == c2.leads \in Fails \/ c2.kpis \in Fails
      settles == ~c.done /\ (ok \/ failed)
      c3 == [c2 EXCEPT !.done = c.done \/ settles]
      gone == c3.done /\ c3.leads # "wait" /\ c3.kpis # "wait"
  IN /\ cycles' = (cycles \ {c}) \cup (IF gone THEN {} ELSE {c3})
     /\ IF settles
        THEN SetView(AfterLoad(c2, IF ok THEN RenderOk(variant, c2, View)
                                    ELSE Catch(variant, c2, fk, View)))
        ELSE UNCHANGED <<dataView, statusLine, btnDisabled>>
     /\ UNCHANGED <<variant, probe, filterVars, options, db, timerVars, epoch, optVars,
                    uploadCount, posts, uploadStatus, uiVars>>

\* the apiGet("/api/leads") promise of cycle c settles
LeadsResponse(c, out) ==
  /\ c \in cycles
  /\ c.leads = "wait"
  /\ Arrive(c, [c EXCEPT !.leads = out], out)

\* the apiGet("/api/kpis") promise of cycle c settles
KpisResponse(c, out) ==
  /\ c \in cycles
  /\ c.kpis = "wait"
  /\ Arrive(c, [c EXCEPT !.kpis = out], out)

(***************************************************************************)
(* loadOptions, Reload, Upload                                             *)
(***************************************************************************)
\* loadOptions(): apiGet("/api/options") issued; the caller awaits it or not
OptStart(by, awaited) ==
  /\ optCount < MaxOptReqs
  /\ optCount' = optCount + 1
  /\ optReqs' = optReqs \cup {[id |-> optCount + 1, by |-> by, awaited |-> awaited]}

\* what the upload handler awaits after loadOptions()
ThenOf(by) ==
  IF by = "upload" /\ variant \notin TsVariants THEN "upload" ELSE "none"

\* the selection after loadOptions has replaced the candidates: loadOptions
\* assigns state.options and does not write state.filters (TomSelect's
\* clearOptions keeps the options of the selected items)
SelAfterOptions(selected, candidates) == selected

\* the /api/options response arrives: the rest of loadOptions, then the
\* continuation of the handler that awaits it
OptionsResponse(r, out) ==
  /\ r \in optReqs
  /\ optReqs' = optReqs \ {r}
  /\ UNCHANGED <<variant, probe, fStatus, db, timerVars, optCount, uploadCount,
                 posts, dataView, input>>
  /\ IF out = "ok" \/ variant \in TsVariants
     THEN /\ options' = IF out = "ok" THEN [k \in Kinds |-> ServerOptions(db)]
                        ELSE options
          /\ sel' = IF out = "ok"
                    THEN [k \in Kinds |-> SelAfterOptions(sel[k], options'[k])]
                    ELSE sel
          /\ chips' = IF variant \in ChipVariants
                      THEN [k \in Kinds |-> renderChips(sel'[k])]
                      ELSE chips
          /\ dd' = IF variant = "dropdown"
                    THEN [k \in Kinds |->
                            IF dd[k].open
                            THEN ddRebuild(dd[k], options'[k], sel'[k], input[k])
                            ELSE dd[k]]
                    ELSE dd
          /\ UNCHANGED <<uploadStatus, btnDisabled>>
          /\ IF r.awaited
             THEN LoadStart(r.by, ThenOf(r.by), fStatus, sel', statusLine)
             ELSE UNCHANGED <<cycleVars, statusLine>>
     ELSE \* loadOptions throws into the handler that awaits it
          /\ UNCHANGED <<options, cycleVars, sel, dd, chips>>
          /\ IF r.by = "upload"
             THEN /\ uploadStatus' = Msg("uploadFail", "error", ApiGetMessage(variant, out))
                  /\ statusLine' = Msg("uploadError", "error", ApiGetMessage(variant, out))
                  /\ btnDisabled' = FALSE
             ELSE IF r.by = "init"
             THEN /\ statusLine' = Msg("initError", "error",
                                       IF variant = "delim" THEN out ELSE "generic")
                  /\ UNCHANGED <<uploadStatus, btnDisabled>>
             ELSE UNCHANGED <<statusLine, uploadStatus, btnDisabled>>

\* click on #btnReload
Reload ==
  /\ IF variant = "tomselect"
     THEN /\ OptStart("reload", FALSE)
          /\ LoadStart("reload", "none", fStatus, sel, statusLine)
     ELSE /\ OptStart("reload", TRUE)
          /\ UNCHANGED <<cycleVars, statusLine>>
  /\ UNCHANGED <<variant, probe, filterVars, options, db, timerVars, postVars,
                 dataView, uploadStatus, uiVars>>

\* click on #btnUpload with no file chosen (the TomSelect variants alert)
UploadClickNoFile ==
  /\ variant \notin TsVariants
  /\ ~btnDisabled
  /\ uploadStatus # Msg("selectFile", "warn", "")
  /\ uploadStatus' = Msg("selectFile", "warn", "")
  /\ UNCHANGED <<variant, probe, filterVars, options, db, timerVars, cycleVars,
                 optVars, postVars, dataView, statusLine, uiVars>>

\* click on #btnUpload with a file chosen: POST /api/upload issued
UploadClick ==
  /\ ~btnDisabled
  /\ uploadCount < MaxUploads
  /\ uploadCount' = uploadCount + 1
  /\ posts' = posts \cup {[id |-> uploadCount + 1]}
  /\ btnDisabled' = (variant \notin TsVariants)
  /\ uploadStatus' = Msg("sending", "muted", "")
  /\ UNCHANGED <<variant, probe, filterVars, options, db, timerVars, cycleVars,
                 optVars, dataView, statusLine, uiVars>>

\* an upload handler that ignores the error payload of the response
UploadMessageNoPayload(var, fk) == IF var \in TsVariants THEN "" ELSE "http"

\* e.message in the upload handler: apiPostForm falls back to the HTTP
\* status, the TomSelect handlers throw new Error(data.error)
UploadMessage(var, fk) ==
  IF fk = "reason" THEN "reason" ELSE IF var \in TsVariants THEN "" ELSE "http"

\* the POST /api/upload response arrives
UploadResponse(p, out) ==
  /\ p \in posts
  /\ posts' = posts \ {p}
  /\ UNCHANGED <<variant, probe, filterVars, options, timerVars, uploadCount, dataView,
                 uiVars>>
  /\ IF out = "ok"
     THEN /\ db' = db + 1
          /\ uploadStatus' = Msg("uploadOk", "ok", "")
          /\ UNCHANGED btnDisabled
          /\ IF variant = "tomselect"
             THEN /\ LoadStart("upload", "none", fStatus, sel, statusLine)
                  /\ UNCHANGED optVars
             ELSE /\ OptStart("upload", TRUE)
                  /\ statusLine' = IF variant = "tomselect2" THEN statusLine
                                   ELSE Msg("uploadDone", "", "")
                  /\ UNCHANGED cycleVars
     ELSE /\ uploadStatus' = Msg("uploadFail", "error", UploadMessage(variant, out))
          /\ statusLine' = IF variant \in TsVariants THEN statusLine
                           ELSE Msg("uploadError", "error", UploadMessage(variant, out))
          /\ btnDisabled' = FALSE
          /\ UNCHANGED <<db, cycleVars, optVars>>

(***************************************************************************)
(* Specification                                                           *)
(***************************************************************************)
Next ==
  \/ \E v \in FieldTexts : FieldChange(v)
  \/ \E k \in Kinds, v \in Texts : RowToggle(k, v)
  \/ \E k \in Kinds, v \in Texts : EnterKey(k, v)
  \/ \E k \in Kinds, v \in Texts : ChipClick(k, v)
  \/ \E k \in Kinds : \E chosen \in SubSeqs(options[k]) : ModalApply(k, chosen)
  \/ \E k \in Kinds : ModalClear(k)
  \/ \E k \in Kinds, v \in Texts : TsToggle(k, v)
  \/ Apply
  \/ Clear
  \/ \E x \in timers : TimerFire(x)
  \/ \E c \in cycles : \E out \in Oks \cup Fails : LeadsResponse(c, out)
  \/ \E c \in cycles : \E out \in {"ok"} \cup Fails : KpisResponse(c, out)
  \/ \E r \in optReqs : \E out \in {"ok"} \cup Fails : OptionsResponse(r, out)
  \/ Reload
  \/ UploadClickNoFile
  \/ UploadClick
  \/ \E p \in posts : \E out \in {"ok"} \cup Fails : UploadResponse(p, out)
  \/ \E k \in Kinds : DdFocus(k)
  \/ \E k \in Kinds, text \in Texts : DdType(k, text)
  \/ \E k \in Kinds : DdInputFire(k)
  \/ \E k \in Kinds, nearBottom \in BOOLEAN : DdScroll(k, nearBottom)
  \/ \E k \in Kinds : DdClose(k)

Spec == Init /\ [][Next]_vars

(***************************************************************************)
(* The fetch orchestrator with one dimension and one typed text: the       *)
(* fetch triggers, the selection mutations outside the dropdown list, the  *)
(* clock and the responses (records with rows, or a failure)               *)
(***************************************************************************)
NextLoad ==
  \/ \E v \in FieldTexts : FieldChange(v)
  \/ EnterKey("curso", <<"a">>)
  \/ \E v \in Texts : ChipClick("curso", v)
  \/ \E chosen \in SubSeqs(options["curso"]) : ModalApply("curso", chosen)
  \/ ModalClear("curso")
  \/ \E v \in Texts : TsToggle("curso", v)
  \/ Apply
  \/ Clear
  \/ Reload
  \/ \E x \in timers : TimerFire(x)
  \/ \E c \in cycles : \E out \in {"ok1", "http"} : LeadsResponse(c, out)
  \/ \E c \in cycles : \E out \in {"ok", "http"} : KpisResponse(c, out)
  \/ \E r \in optReqs : \E out \in {"ok", "http"} : OptionsResponse(r, out)

SpecLoad == Init /\ [][NextLoad]_vars

(***************************************************************************)
(* The selection store under its add and remove operations alone: every   *)
(* text for one dimension, two texts for the other                         *)
(***************************************************************************)
StoreTexts(k) == IF k = "curso" THEN Texts ELSE {<<"a">>, <<" ", "A">>}

NextStore ==
  \/ \E k \in Kinds : \E v \in StoreTexts(k) : EnterKey(k, v)
  \/ \E k \in Kinds, v \in Texts : ChipClick(k, v)
  \/ \E k \in Kinds : DdFocus(k)
  \/ \E k \in Kinds, v \in Texts : RowToggle(k, v)
  \/ \E r \in optReqs : OptionsResponse(r, "ok")

SpecStore == Init /\ [][NextStore]_vars

(***************************************************************************)
(* The upload handler and the refresh that follows it                      *)
(***************************************************************************)
NextUpload ==
  \/ UploadClickNoFile
  \/ UploadClick
  \/ \E p \in posts : \E out \in {"ok"} \cup Fails : UploadResponse(p, out)
  \/ \E r \in optReqs : \E out \in {"ok"} \cup Fails : OptionsResponse(r, out)
  \/ \E c \in cycles : \E out \in Oks \cup Fails : LeadsResponse(c, out)
  \/ \E c \in cycles : \E out \in {"ok"} \cup Fails : KpisResponse(c, out)
  \/ EnterKey("curso", <<"a">>)
  \/ \E v \in Texts : TsToggle("curso", v)
  \/ Apply

SpecUpload == Init /\ [][NextUpload]_vars

(***************************************************************************)
(* The selection of one dimension under every operation that writes it,    *)
(* with the candidate list refreshed at start, on Reload and after an      *)
(* upload                                                                  *)
(***************************************************************************)
SelectTexts == {<<"a">>, <<" ", "A">>, <<"a", "a">>}

NextSelect ==
  \/ \E text \in SelectTexts : EnterKey("curso", text)
  \/ \E v \in Texts : ChipClick("curso", v)
  \/ DdFocus("curso")
  \/ \E v \in Texts : RowToggle("curso", v)
  \/ \E chosen \in SubSeqs(options["curso"]) : ModalApply("curso", chosen)
  \/ ModalClear("curso")
  \/ \E v \in Texts : TsToggle("curso", v)
  \/ Clear
  \/ Reload
  \/ UploadClick
  \/ \E p \in posts : UploadResponse(p, "ok")
  \/ \E r \in optReqs : OptionsResponse(r, "ok")

SpecSelect == Init /\ [][NextSelect]_vars

(***************************************************************************)
(* _removeValue applied to every short list and value, next to the two     *)
(* chip variants adding and removing chips                                 *)
(***************************************************************************)
MaxList == 2         \* longest list a function is applied to

RECURSIVE ListsUpTo(_, _)
ListsUpTo(S, n) ==
  IF n = 0 THEN {<<>>}
  ELSE LET L == ListsUpTo(S, n - 1)
       IN L \cup {Append(l, x) : l \in {y \in L : Len(y) = n - 1}, x \in S}

\* what a list can hold: two choices, written in either case, trimmed or not
Entries == {<<"a">>, <<"A">>, <<" ", "a">>, <<"A", " ">>, <<"a", "a">>, <<"A", "a">>}

\* _removeValue(probe.a, probe.b)
CallRemove ==
  /\ probe.fn = "input"
  /\ probe' = Call("_removeValue", probe.a, probe.b, _removeValue(probe.a, probe.b))
  /\ UNCHANGED programVars

InitRemove ==
  /\ InitProgram
  /\ variant \in ChipVariants
  /\ probe \in {Call("input", l, v, <<>>) : l \in ListsUpTo(Entries, MaxList),
                                              v \in Texts}

NextRemove ==
  \/ CallRemove
  \/ \E text \in {<<"a">>, <<"a", "a">>} : EnterKey("curso", text)
  \/ \E v \in Texts : ChipClick("curso", v)

SpecRemove == InitRemove /\ [][NextRemove]_vars

(***************************************************************************)
(* The dropdown of one dimension: focus, typing, scrolling, row clicks,    *)
(* and an upload that makes the candidate list longer than one batch       *)
(***************************************************************************)
DdTexts == {<<>>, <<"a">>, <<"a", "a">>}

InitDd == Init /\ variant = "dropdown"

NextDd ==
  \/ DdFocus("curso")
  \/ \E text \in DdTexts : DdType("curso", text)
  \/ DdInputFire("curso")
  \/ \E nearBottom \in BOOLEAN : DdScroll("curso", nearBottom)
  \/ DdClose("curso")
  \/ \E v \in Texts : RowToggle("curso", v)
  \/ \E v \in Texts : ChipClick("curso", v)
  \/ EnterKey("curso", <<"a", "a">>)
  \/ Clear
  \/ UploadClick
  \/ \E p \in posts : UploadResponse(p, "ok")
  \/ \E r \in optReqs : OptionsResponse(r, "ok")

SpecDd == InitDd /\ [][NextDd]_vars

(***************************************************************************)
(* The dropdown of one dimension when the data holds a lead with an empty  *)
(* value, so that /api/options lists an empty candidate                    *)
(***************************************************************************)
InitBlank ==
  /\ variant = "dropdown"
  /\ fStatus = <<>>
  /\ sel = [k \in Kinds |-> <<>>]
  /\ options = [k \in Kinds |-> <<>>]
  /\ db = -1
  /\ timers = {}
  /\ t = 0
  /\ lastFired = TRUE
  /\ burstCalls = 0
  /\ burstRuns = 0
  /\ epoch = 0
  /\ cycles = {}
  /\ optCount = 1
  /\ optReqs = {[id |-> 1, by |-> "init", awaited |-> TRUE]}
  /\ uploadCount = 0
  /\ posts = {}
  /\ btnDisabled = FALSE
  /\ table = [html |-> "initial", url |-> NoUrl]
  /\ kpis = [html |-> "initial", url |-> NoUrl]
  /\ statusLine = Msg("initial", "", "")
  /\ uploadStatus = Msg("initial", "", "")
  /\ tableBy = 0
  /\ kpisBy = 0
  /\ input = [k \in Kinds |-> <<>>]
  /\ dd = [k \in Kinds |-> DdInit]
  /\ chips = [k \in Kinds |-> renderChips(<<>>)]
  /\ probe = NoCall

SpecBlank == InitBlank /\ [][NextDd]_vars

(***************************************************************************)
(* The filter compiler with the limit field and the export request,        *)
(* applied twice in a row to drawn contents of the filter form             *)
(***************************************************************************)
Digits == <<"0", "1", "2", "3", "4", "5", "6", "7", "8", "9">>
IsDigit(c) == \E i \in 1..10 : Digits[i] = c
DigitVal(c) == (CHOOSE i \in 1..10 : Digits[i] = c) - 1

\* the longest prefix of s made of digits
RECURSIVE LeadingDigits(_)
LeadingDigits(s) ==
  IF s = <<>> \/ ~IsDigit(Head(s)) THEN <<>>
  ELSE <<Head(s)>> \o LeadingDigits(Tail(s))

RECURSIVE DigitsToNat(_, _)
DigitsToNat(ds, acc) ==
  IF ds = <<>> THEN acc ELSE DigitsToNat(Tail(ds), 10 * acc + DigitVal(Head(ds)))

\* parseInt(s, 10): leading white space skipped, an optional sign, then the
\* digits up to the first other character; NaN when there is no digit
parseInt(s) ==
  LET u == trimStart(s)
      signed == u # <<>> /\ Head(u) \in {"-", "+"}
      ds == LeadingDigits(IF signed THEN Tail(u) ELSE u)
      n == DigitsToNat(ds, 0)
  IN IF ds = <<>> THEN [nan |-> TRUE, n |-> 0]
     ELSE [nan |-> FALSE, n |-> IF signed /\ Head(u) = "-" THEN 0 - n ELSE n]

\* String(n) for an integer n
RECURSIVE NatToDigits(_)
NatToDigits(n) ==
  IF n < 10 THEN <<Digits[n + 1]>>
  ELSE Append(NatToDigits(n \div 10), Digits[(n % 10) + 1])
IntToString(n) == IF n < 0 THEN <<"-">> \o NatToDigits(0 - n) ELSE NatToDigits(n)

\* Math.max(50, Math.min(lim, 5000))
Clamp(lim) == IF lim > 5000 THEN 5000 ELSE IF lim < 50 THEN 50 ELSE lim

\* params.limit for #fLimit holding `field`: readFiltersFromUI clamps in the
\* delimiter variant and only parses in the chip variants; getFilters of
\* the TomSelect variants passes the text on
LimitOf(var, field) ==
  IF var \in TsVariants THEN IF field = <<>> THEN IntToString(500) ELSE field
  ELSE LET lim == parseInt(IF field = <<>> THEN IntToString(500) ELSE field)
       IN IntToString(IF lim.nan THEN 500
                      ELSE IF var = "delim" THEN Clamp(lim.n) ELSE lim.n)

\* the params object of loadLeadsAndKpis with its limit entry, in the key
\* order of the object literal
FullParams(var, fS, s, field) ==
  LET p == Params(var, fS, s)
      l == Scalar("limit", LimitOf(var, field))
  IN IF var \in ChipVariants THEN <<p[1], l>> \o Tail(p) ELSE Append(p, l)

\* url.searchParams.append(k, c) for every item of the list, as it is
AppendRaw(k, items) == [i \in 1..Len(items) |-> <<k, items[i]>>]

\* the request of the export button: apiGet("/api/leads") with limit 5000
\* in the delimiter variant, exportCsvServer in the chip variants, no export
\* in the TomSelect variants
ExportUrl(var, fS, s) ==
  IF var = "delim"
  THEN ApiGetUrl(var, "/api/leads",
                 Append(Params(var, fS, s), Scalar("limit", IntToString(5000))))
  ELSE IF var \in ChipVariants
  THEN [path |-> "/api/export",
        query |-> (IF trim(fS) # <<>> THEN << <<"status", trim(fS)>> >> ELSE <<>>)
                  \o AppendRaw("curso", s["curso"])
                  \o AppendRaw("polo", s["polo"])
                  \o << <<"export_limit", IntToString(200000)>> >>]
  ELSE NoUrl

\* a readFiltersFromUI that empties the status field once it has read it
ReadFiltersClearsField(var, form) ==
  [form EXCEPT !.status = <<>>,
               !.filters = [status |-> trim(form.status),
                            limit |-> LimitOf(var, form.limit)]]

\* readFiltersFromUI(): the form is read into state.filters and left as it
\* is; getFilters of the TomSelect variants keeps no copy
readFiltersFromUI(var, form) ==
  IF var \in TsVariants THEN form
  ELSE [form EXCEPT
          !.filters = [status |-> IF var = "delim" THEN cleanMultiRaw(form.status)
                                  ELSE trim(form.status),
                       limit |-> LimitOf(var, form.limit)]]

\* the three requests the form compiles to
Compiled(var, form) ==
  [leads |-> ApiGetUrl(var, "/api/leads",
                       FullParams(var, form.status, form.sel, form.limit)),
   kpis |-> ApiGetUrl(var, "/api/kpis",
                      FullParams(var, form.status, form.sel, form.limit)),
   export |-> ExportUrl(var, form.status, form.sel)]

StatusFields == {<<>>, <<" ">>, <<"a">>, <<"a", " ">>}
LimitFields == {<<>>, <<"x">>, <<"0">>, <<"-", "1">>, <<"4", "9">>, <<"5", "0">>,
                <<"7", "x">>, <<"5", "0", "0", "0">>, <<"5", "0", "0", "1">>}
Selected == {<<"a">>, <<"A", " ">>, <<"a", "a">>}

\* the filter form: fields, selections and state.filters before any read;
\* the delimiter variant has no selection lists
Forms(var) ==
  {[status |-> st, limit |-> lim,
    sel |-> [k \in Kinds |-> IF k = "curso" THEN cs ELSE ps],
    filters |-> [status |-> <<>>, limit |-> IntToString(500)]] :
     st \in StatusFields, lim \in LimitFields,
     cs \in (IF var = "delim" THEN {<<>>} ELSE ListsUpTo(Selected, MaxList)),
     ps \in (IF var = "delim" THEN {<<>>} ELSE {<<>>, << <<"a">> >>})}

\* loadLeadsAndKpis and the export handler compile the form
CallCompile ==
  /\ probe.fn = "input"
  /\ probe' = Call("compile", readFiltersFromUI(variant, probe.a), probe.a,
                   <<Compiled(variant, probe.a)>>)
  /\ UNCHANGED programVars

\* and compile it once more, nothing having touched it in between
CallCompileAgain ==
  /\ probe.fn = "compile"
  /\ probe' = Call("compile_again", readFiltersFromUI(variant, probe.a), probe.b,
                   Append(probe.out, Compiled(variant, probe.a)))
  /\ UNCHANGED programVars

InitCompile ==
  /\ InitProgram
  /\ probe \in {Call("input", form, form, <<>>) : form \in Forms(variant)}

NextCompile == CallCompile \/ CallCompileAgain

SpecCompile == InitCompile /\ [][NextCompile]_vars

(***************************************************************************)
(* cleanMultiRaw applied to every short typed text of the delimiter        *)
(* variant, and once more to its own result, next to the request the text  *)
(* compiles to                                                             *)
(***************************************************************************)
MaxDelimLen == 5     \* longest text typed into a field of the delimiter variant

\* what a user types into #fStatus / #fCurso / #fPolo / #fOrigem: letters,
\* blanks and bars
DelimChars == {"a", " ", "|"}
DelimTexts == ListsUpTo(DelimChars, MaxDelimLen)

\* buildParams + apiGet("/api/leads") with the field holding the text
DelimRequest(text) == ApiGetUrl("delim", "/api/leads", Params("delim", text, EmptySel))

\* cleanMultiRaw(probe.a), and the request of the same text
CallClean ==
  /\ probe.fn = "input"
  /\ probe' = Call("cleanMultiRaw", probe.a, DelimRequest(probe.a),
                   cleanMultiRaw(probe.a))
  /\ UNCHANGED programVars

\* cleanMultiRaw on its own result
CallCleanAgain ==
  /\ probe.fn = "cleanMultiRaw"
  /\ probe' = Call("cleanMultiRaw_again", probe.out, probe.b,
                   cleanMultiRaw(probe.out))
  /\ UNCHANGED programVars

InitClean ==
  /\ InitProgram
  /\ variant = "delim"
  /\ probe \in {Call("input", text, <<>>, <<>>) : text \in DelimTexts}

NextClean == CallClean \/ CallCleanAgain

SpecClean == InitClean /\ [][NextClean]_vars

(***************************************************************************)
(* The candidate filters applied to every short candidate list and search  *)
(* text, and once more to their own result                                 *)
(***************************************************************************)
\* what /api/options can list: texts in either case, trimmed or not, the
\* empty one, a blank one and accented ones
Candidates == {<<>>, <<" ">>, <<"a">>, <<"A", " ">>, <<"a", "a">>, <<"A", "a">>,
               <<"a_acute">>, <<"A_acute">>}
SearchTexts == Texts \cup {<<"a_acute">>}

\* the filter of the variant, with the search text as ddRebuild and
\* buildModalList pass it: trimmed and upper-cased
FilterOf(fn, all, text) ==
  IF fn = "ddFilterList" THEN ddFilterList(all, toUpperCase(trim(text)))
  ELSE ModalFilter(all, toUpperCase(trim(text)))

\* the filter on the candidate list
CallFilter(fn) ==
  /\ probe.fn = "input"
  /\ variant = (IF fn = "ddFilterList" THEN "dropdown" ELSE "modal")
  /\ probe' = Call(fn, probe.a, probe.b, FilterOf(fn, probe.a, probe.b))
  /\ UNCHANGED programVars

\* the filter on its own result, same search text
CallFilterAgain(fn) ==
  /\ probe.fn = fn
  /\ probe' = Call(fn \o "_again", probe.out, probe.b,
                   FilterOf(fn, probe.out, probe.b))
  /\ UNCHANGED programVars

InitFilter ==
  /\ InitProgram
  /\ variant \in {"dropdown", "modal"}
  /\ probe \in {Call("input", all, text, <<>>) :
                   all \in ListsUpTo(Candidates, MaxList), text \in SearchTexts}

NextFilter ==
  \E fn \in {"ddFilterList", "ModalFilter"} : CallFilter(fn) \/ CallFilterAgain(fn)

SpecFilter == InitFilter /\ [][NextFilter]_vars

(***************************************************************************)
(* Properties                                                              *)
(***************************************************************************)
\* a load cycle of the pre-state settles in this step, by a failure
FailsNow(c) ==
  /\ c \in cycles
  /\ ~c.done
  /\ \E out \in Fails : LeadsResponse(c, out) \/ KpisResponse(c, out)

\* the query the current filter state compiles to
CurrentQuery == UrlEntries(variant, Params(variant, fStatus, sel))

\* C1: stale results are discarded -- whenever loadLeadsAndKpis applies the
\* results of a cycle (table and KPI values rendered), that cycle is the most
\* recently issued one; responses of an older cycle never reach the view.
C1_StaleResultsDiscarded ==
  [][(kpisBy' # kpisBy /\ kpis'.html = "values")
       => (kpisBy' = epoch' /\ tableBy' = epoch')]_vars

\* C2: the table and the KPI labels are updated as a pair -- once both have
\* been written, the table and the KPI labels on screen were written by the
\* same load cycle.
C2_TableAndKpisSameCycle ==
  (tableBy # 0 /\ kpisBy # 0) => tableBy = kpisBy

\* C3: the debounce collapses a burst into one fetch -- at most one timer is
\* armed at any time, no run is issued while the timer of the last call is
\* armed, a burst that has ended has issued exactly one run, and that run is
\* one load cycle with one records and one KPI request.
C3_DebounceOneRunPerBurst ==
  /\ [](/\ Cardinality(timers) <= 1
        /\ burstRuns <= 1
        /\ (~lastFired => (Cardinality(timers) = 1 /\ burstRuns = 0))
        /\ ((lastFired /\ burstCalls > 0) => (timers = {} /\ burstRuns = 1)))
  /\ [][burstRuns' = burstRuns + 1
          => /\ epoch' = epoch + 1
             /\ \E c \in cycles' \ cycles :
                   c.id = epoch' /\ c.leads = "wait" /\ c.kpis = "wait"]_vars

\* C3 witness: a burst of several calls has ended with its single run
C3_Witness ==
  burstCalls = 2 /\ lastFired /\ burstRuns = 1 /\ timers = {} /\ epoch >= 1

\* case-insensitive, trimmed comparison
SameChoice(a, b) == toUpperCase(trim(a)) = toUpperCase(trim(b))

\* C4: starting from the empty list, after any sequence of _uniqPush and
\* _removeValue the selection list of a dimension never holds two entries
\* equal under case-insensitive, trimmed comparison.
C4_SelectionUnique ==
  \A k \in Kinds : \A i, j \in 1..Len(sel[k]) :
     i # j => ~SameChoice(sel[k][i], sel[k][j])

\* C4 witness: two values selected in one dimension, in a variant with chips
C4_Witness ==
  variant \in ChipVariants /\ Len(sel["curso"]) = 2 /\ Len(sel["polo"]) = 1

C6_FailurePreservesView ==
  [][\A c \in cycles :
       (FailsNow(c) /\ table.html = "rows" /\ table.url = c.leadsUrl)
          => (table' = table /\ kpis' = kpis)]_vars

\* C7: after a successful upload the handler re-runs loadOptions and then
\* issues a load cycle -- the successful response starts an options request,
\* and a cycle is issued for the upload handler only in the step in which
\* that options request completes.
C7_UploadRefreshesOptionsThenLoads ==
  [][/\ \A p \in posts : UploadResponse(p, "ok") =>
           \E r \in optReqs' \ optReqs : r.by = "upload"
     /\ \A c \in cycles' \ cycles : c.upload =>
           \E r \in optReqs \ optReqs' : r.by = "upload"]_vars

\* the upload handler leaves the data view, the candidates and the
\* selections as they were
UploadFrame ==
  /\ table' = table
  /\ kpis' = kpis
  /\ options' = options
  /\ sel' = sel
  /\ fStatus' = fStatus

\* C8 as claimed: a failed upload changes nothing but the upload status text
\* and the status line, and both show the reason the server gave.
C8_FailedUploadShowsReasonInBoth ==
  [][\A p \in posts : \A out \in Fails : UploadResponse(p, out) =>
        /\ UploadFrame
        /\ out = "reason" =>
              /\ uploadStatus'.text = "uploadFail"
              /\ uploadStatus'.detail = "reason"
              /\ statusLine'.text = "uploadError"
              /\ statusLine'.detail = "reason"]_vars

\* C8 amended: the upload click and a failed upload leave the table, the KPI
\* labels, the candidates and the selections unchanged; the upload status
\* text shows the failure, with the server's reason when the response
\* carries one; the status line shows it too in the variants whose handler
\* calls showToast and is left unchanged in the TomSelect variants.
C8_FailedUploadLeavesView ==
  /\ [][UploadClick => UploadFrame]_vars
  /\ [][\A p \in posts : \A out \in Fails : UploadResponse(p, out) =>
          /\ UploadFrame
          /\ uploadStatus'.text = "uploadFail"
          /\ uploadStatus'.cls = "error"
          /\ out = "reason" => uploadStatus'.detail = "reason"
          /\ IF variant \in TsVariants
             THEN statusLine' = statusLine
             ELSE /\ statusLine'.text = "uploadError"
                  /\ statusLine'.cls = "error"
                  /\ out = "reason" => statusLine'.detail = "reason"]_vars

\* C8 witness: an upload has failed with a reason while rows are on screen
C8_Witness ==
  /\ uploadStatus = Msg("uploadFail", "error", "reason")
  /\ table.html = "rows"
  /\ kpis.html = "values"
  /\ posts = {}

\* C9: every change of a selection arms a fetch before its handler returns:
\* after the step a debounce timer is armed or a load cycle has been issued.
C9_SelectionChangeArmsFetch ==
  [][sel' # sel => (timers' # {} \/ epoch' > epoch)]_vars

\* C10: the filter state of a cycle is a snapshot -- the records and the KPI
\* request of a cycle carry the same query, which is the one the filter state
\* compiles to when the cycle starts; the requests of a cycle in flight never
\* change; and the results applied for a cycle are those of its own requests.
C10_CycleIsSnapshot ==
  /\ [](\A c \in cycles : c.leadsUrl.query = c.kpisUrl.query)
  /\ [][\A c \in cycles' : c.id > epoch =>
          /\ c.leadsUrl = [path |-> "/api/leads", query |-> CurrentQuery']
          /\ c.kpisUrl = [path |-> "/api/kpis", query |-> CurrentQuery']]_vars
  /\ [][\A c \in cycles : \A d \in cycles' :
          d.id = c.id => (d.leadsUrl = c.leadsUrl /\ d.kpisUrl = c.kpisUrl)]_vars
  /\ [][(kpisBy' # kpisBy /\ kpis'.html = "values") =>
          \E c \in cycles :
             /\ c.id = kpisBy'
             /\ kpis'.url = c.kpisUrl
             /\ table'.html = "rows" => table'.url = c.leadsUrl]_vars

\* C10 witness: the results of a cycle are on screen whose selection was
\* changed while its requests were in flight -- the rendered query carries a
\* selection and is no longer the one the filter state compiles to
C10_Witness ==
  /\ table.html = "rows"
  /\ kpis.html = "values"
  /\ table.url.query # CurrentQuery
  /\ \E i \in 1..Len(table.url.query) : table.url.query[i][1] = "curso"
  /\ cycles = {}
  /\ epoch = 1

\* some entry of the list is the same choice as the value
Has(list, value) == \E i \in 1..Len(list) : SameChoice(list[i], value)

\* C11: add is insert-if-absent -- a handler that calls _uniqPush with a
\* value that is not blank appends the trimmed value at the end of the list
\* when no entry equals it under case-insensitive trimmed comparison, and
\* otherwise leaves the list as it is.
C11_AddIsInsertIfAbsent ==
  [][\A text \in SelectTexts :
       (EnterKey("curso", text) /\ trim(text) # <<>>) =>
          IF Has(sel["curso"], text)
          THEN sel'["curso"] = sel["curso"]
          ELSE sel'["curso"] = Append(sel["curso"], trim(text))]_vars

\* the list without its i-th entry, the others in their order
Without(list, i) == SubSeq(list, 1, i - 1) \o SubSeq(list, i + 1, Len(list))

\* out is list after the removal of an entry that is the same choice as
\* value, or list itself when there is none
Removed(list, value, out) ==
  IF Has(list, value)
  THEN \E i \in 1..Len(list) : SameChoice(list[i], value) /\ out = Without(list, i)
  ELSE out = list

ExplicitRemoval(v) ==
  \/ Clear
  \/ ModalClear("curso")
  \/ \E x \in Texts : /\ SameChoice(x, v)
                      /\ \/ ChipClick("curso", x)
                         \/ RowToggle("curso", x)
                         \/ TsToggle("curso", x)
  \/ /\ Has(options["curso"], v)
     /\ \E chosen \in SubSeqs(options["curso"]) : ModalApply("curso", chosen)

\* C13: a selected value leaves the selection only through an explicit
\* removal of that value or an explicit clear; a refresh of the candidate
\* list keeps every selected value, those absent from the new list included.
C13_SelectionLeavesOnlyExplicitly ==
  [][\A v \in Texts :
       (Has(sel["curso"], v) /\ ~Has(sel'["curso"], v)) => ExplicitRemoval(v)]_vars

NonBlank(list) == SelectSeq(list, LAMBDA v : v # <<>>)

\* the filter has run twice, and its second result differs from no input
FilterIdempotent ==
  probe.fn \in {"ddFilterList_again", "ModalFilter_again"} => probe.out = probe.a

Fold(s) == toUpperCase(stripDiacritics(s))

\* C15: for a non-empty query the candidate filter returns exactly the
\* candidates, in their original order, whose case-folded and
\* diacritic-stripped form contains the case-folded and diacritic-stripped
\* query, so a query without accents matches a candidate written with them.
C15_FilterMatchesFolded ==
  (probe.fn \in {"ddFilterList", "ModalFilter"} /\ trim(probe.b) # <<>>) =>
     probe.out = SelectSeq(probe.a,
                           LAMBDA v : Includes(Fold(v), Fold(trim(probe.b))))

\* the candidate values of the rows in the dropdown element, top to bottom
Values(rows) == [i \in 1..Len(rows) |-> rows[i].v]
Min(a, b) == IF a < b THEN a ELSE b

C17_RowClickKeepsBatches ==
  [][\A v \in Texts :
       RowToggle("curso", v) =>
          /\ Has(sel'["curso"], v) = ~Has(sel["curso"], v)
          /\ dd'["curso"].idx = dd["curso"].idx
          /\ Values(dd'["curso"].rows) = Values(dd["curso"].rows)]_vars

\* C18: infinite scroll makes progress and stops -- a scroll event renders
\* a batch when and only when the dropdown is open, the viewport is near the
\* end and idx < length; each such event moves idx up, never past the length
\* of the same filtered sequence, so finitely many of them render it whole;
\* any other scroll event, and every one once idx equals the length,
\* changes nothing.
C18_ScrollProgressAndStop ==
  [][\A nearBottom \in BOOLEAN :
       DdScroll("curso", nearBottom) =>
          LET st == dd["curso"]
          IN IF st.open /\ nearBottom /\ st.idx < Len(st.filtered)
             THEN /\ dd'["curso"].filtered = st.filtered
                  /\ dd'["curso"].idx > st.idx
                  /\ dd'["curso"].idx <= Len(st.filtered)
                  /\ Len(dd'["curso"].rows) = dd'["curso"].idx
             ELSE dd'["curso"] = st]_vars

\* C18 witness: scrolling has rendered the whole sequence of two candidates
\* for the empty search text, and no input timer is pending
C18_Witness ==
  /\ dd["curso"].open
  /\ ~dd["curso"].timer
  /\ dd["curso"].q = <<>>
  /\ Len(dd["curso"].filtered) = 2
  /\ dd["curso"].idx = 2
  /\ Len(dd["curso"].rows) = 2

\* C19: when the filtered sequence is empty the dropdown shows the "no
\* results" placeholder alone, holds no candidate row and keeps the cursor
\* at 0, and a scroll event renders nothing; buildModalList shows its
\* placeholder and no row when its filtered list is empty.
C19_EmptyShowsPlaceholder ==
  /\ [](LET st == dd["curso"]
        IN /\ st.filtered = <<>> => /\ st.rows = <<>>
                                    /\ st.idx = 0
                                    /\ st.open => st.empty
           /\ st.empty => st.rows = <<>> /\ st.filtered = <<>>)
  /\ [][\A nearBottom \in BOOLEAN :
          (DdScroll("curso", nearBottom) /\ dd["curso"].filtered = <<>>) =>
             dd'["curso"] = dd["curso"]]_vars
  /\ [](\A text \in DdTexts :
          LET m == buildModalList(options["curso"], sel["curso"], text)
          IN ModalFilter(options["curso"], toUpperCase(trim(text))) = <<>> =>
                m.empty /\ m.rows = <<>>)

\* C19 witness: candidates exist, the search text matches none of them, and
\* the open dropdown shows the placeholder
C19_Witness ==
  /\ options["curso"] # <<>>
  /\ dd["curso"].open
  /\ dd["curso"].q = <<"A", "A">>
  /\ dd["curso"].filtered = <<>>
  /\ dd["curso"].empty

\* C20: the materialized batch is rebuilt whenever its inputs change -- a
\* scroll event renders rows only from a filtered sequence that was computed
\* for the current search text and the current candidate list.
C20_NoStaleBatch ==
  [][\A nearBottom \in BOOLEAN :
       (DdScroll("curso", nearBottom) /\ dd'["curso"].rows # dd["curso"].rows) =>
          dd["curso"].filtered =
             ddFilterList(options["curso"], toUpperCase(trim(input["curso"])))]_vars

\* the values the query carries under the key, in their order
ValuesOf(query, key) ==
  LET hits == SelectSeq(query, LAMBDA e : e[1] = key)
  IN [i \in 1..Len(hits) |-> hits[i][2]]

\* the requests of the first compilation of the drawn form
Requests ==
  IF probe.fn \in {"compile", "compile_again"}
  THEN {probe.out[1].leads, probe.out[1].kpis}
       \cup (IF probe.out[1].export.path = "" THEN {} ELSE {probe.out[1].export})
  ELSE {}

\* C21: multi-value selections are sent with repeated-key encoding -- in
\* the records, KPI and export requests every selected value of a dimension
\* is one separate instance of the dimension's key, in selection order, none
\* dropped or merged, and an empty selection sends no instance of the key.
C21_RepeatedKeyEncoding ==
  variant # "delim" =>
    \A url \in Requests : \A k \in Kinds :
       LET sent == ValuesOf(url.query, k)
           list == probe.b.sel[k]
       IN /\ Len(sent) = Len(list)
          /\ \A i \in 1..Len(list) : sent[i] \in {list[i], trim(list[i])}

\* C22: scalar filters are compiled to one parameter each, carrying the
\* trimmed value, and are omitted when the trimmed value is empty; no
\* request carries a filter key with an empty or whitespace-only value.
C22_ScalarsTrimmedOrOmitted ==
  \A url \in Requests :
     /\ ValuesOf(url.query, "status") =
          (IF trim(probe.b.status) = <<>> THEN <<>> ELSE <<trim(probe.b.status)>>)
     /\ \A i \in 1..Len(url.query) : trim(url.query[i][2]) # <<>>

\* the text is a decimal integer between lo and hi
IsIntBetween(text, lo, hi) ==
  /\ text # <<>>
  /\ \A i \in 1..Len(text) : IsDigit(text[i])
  /\ DigitsToNat(text, 0) >= lo
  /\ DigitsToNat(text, 0) <= hi

\* C23: the result-size cap is clamped before transmission -- for every
\* value of the limit field the limit sent with the records and the KPI
\* request is one integer between 50 and 5000, and it is 500 when the field
\* is not a number.
C23_LimitClamped ==
  probe.fn \in {"compile", "compile_again"} =>
    \A url \in {probe.out[1].leads, probe.out[1].kpis} :
       LET sent == ValuesOf(url.query, "limit")
       IN /\ Len(sent) = 1
          /\ IsIntBetween(sent[1], 50, 5000)
          /\ parseInt(probe.b.limit).nan => sent[1] = IntToString(500)

C25_OneCyclePerSettledState ==
  [][\A x \in timers :
        (TimerFire(x) /\ x.id = t /\ burstCalls = 1)
          => ~\E c \in cycles :
                /\ c.id = epoch
                /\ ~c.done
                /\ c.leadsUrl = ApiGetUrl(variant, "/api/leads",
                                          Params(variant, fStatus, sel))
                /\ c.kpisUrl = ApiGetUrl(variant, "/api/kpis",
                                         Params(variant, fStatus, sel))]_vars

\* C26: a failure of a superseded cycle is never surfaced -- when a request
\* of a load cycle fails after a newer cycle has been issued, the status
\* line shows no message for it and the table and the KPI labels stay as
\* they are.
C26_SupersededFailureSilent ==
  [][\A c \in cycles :
        (FailsNow(c) /\ c.id < epoch)
          => (statusLine' = statusLine /\ table' = table /\ kpis' = kpis)]_vars

\* C30: a fetch uses the filter state at timer expiry -- the cycle issued
\* when the debounce timer fires carries the requests compiled from the
\* field and the selections as they are at that step, whatever they were
\* when the timer was armed.
C30_FetchReadsAtExpiry ==
  [][\A x \in timers :
        TimerFire(x)
          => \E c \in cycles' :
                /\ c.id = epoch'
                /\ c.leadsUrl = ApiGetUrl(variant, "/api/leads",
                                          Params(variant, fStatus, sel))
                /\ c.kpisUrl = ApiGetUrl(variant, "/api/kpis",
                                         Params(variant, fStatus, sel))]_vars

\* C30 witness: in a TomSelect variant, where typing in #fStatus arms no
\* timer, the one timer armed by a selection change has fired and the cycle
\* it issued carries the typed status along with the selected value
C30_Witness ==
  /\ variant = "tomselect"
  /\ epoch = 2
  /\ burstCalls = 1
  /\ burstRuns = 1
  /\ lastFired
  /\ \E c \in cycles :
        /\ c.id = 2
        /\ ValuesOf(c.leadsUrl.query, "status") = << <<"a", " ">> >>
        /\ ValuesOf(c.leadsUrl.query, "curso") # <<>>

\* a load cycle of the pre-state settles in this step by a records response
\* with no row and a KPI response
EmptyNow(c) ==
  /\ c \in cycles
  /\ ~c.done
  /\ \/ c.kpis = "ok" /\ LeadsResponse(c, "ok0")
     \/ c.leads = "ok0" /\ KpisResponse(c, "ok")

C28_PayloadMessageShown ==
  [][\A c \in cycles : \A out \in Fails :
        (~c.done /\ c.then = "none"
           /\ (LeadsResponse(c, out) \/ KpisResponse(c, out)))
          => (statusLine'.cls = "error" /\ statusLine'.detail = out)]_vars

\* C29: in the delimiter variant no request repeats a key and a field is
\* sent as its text cleaned by cleanMultiRaw; cleaning a cleaned text gives
\* the same text, and a cleaned text splits at the separator into segments
\* none of which is empty (so it neither starts nor ends with a separator).
C29_DelimiterEncodingClean ==
  /\ probe.fn = "cleanMultiRaw"
       => /\ Len(ValuesOf(probe.b.query, "status")) <= 1
          /\ \A i \in 1..Len(probe.b.query) : probe.b.query[i] = <<"status", probe.out>>
          /\ probe.out # <<>>
               => \A i \in 1..Len(SplitBars(probe.out, <<>>)) :
                     SplitBars(probe.out, <<>>)[i] # <<>>
  /\ probe.fn = "cleanMultiRaw_again" => probe.out = probe.a

\* C31: the three surfaces of a selection agree -- between handlers the
\* chips are the selection list in order, the hidden field is the list
\* joined with "||", and every row of the open dropdown carries the marker
\* of the current membership of its value; a click on a row toggles the
\* membership the row displays.
C31_SurfacesAgree ==
  /\ [](variant \in ChipVariants =>
         \A k \in Kinds :
            /\ chips[k].box = sel[k]
            /\ chips[k].hidden = Join(sel[k], <<"|", "|">>)
            /\ dd[k].open =>
                 \A i \in 1..Len(dd[k].rows) :
                    dd[k].rows[i].on = IsOn(sel[k], dd[k].rows[i].v))
  /\ [][\A v \in Texts :
          RowToggle("curso", v) =>
             \A i \in 1..Len(dd["curso"].rows) :
                dd["curso"].rows[i].v = v =>
                   IsOn(sel'["curso"], v) = ~dd["curso"].rows[i].on]_vars

\* C32: Clear is a soft reset -- the click empties the scalar field and both
\* selections, closes both dropdowns, leaves the candidate lists as they
\* are and issues one load cycle whose two requests carry no filter
\* parameter; it leaves no debounce timer armed, so that no later cycle is
\* issued on account of what was changed before the click.
C32_ClearIsSoftReset ==
  [][Clear =>
       /\ fStatus' = <<>>
       /\ sel' = EmptySel
       /\ \A k \in Kinds : ~dd'[k].open
       /\ options' = options
       /\ epoch' = epoch + 1
       /\ \E c \in cycles' :
             /\ c.id = epoch'
             /\ c.leadsUrl.query = <<>>
             /\ c.kpisUrl.query = <<>>
       /\ cycles' \ cycles = {c \in cycles' : c.id = epoch'}
       /\ timers' = {}]_vars

\* C33: in the modal variant Aplicar changes membership only for the
\* candidates the modal list displays -- a value that was selected and is
\* not among the displayed candidates is still selected after the click.
C33_ApplyKeepsUndisplayed ==
  [][\A chosen \in SubSeqs(options["curso"]) :
        ModalApply("curso", chosen) =>
           \A v \in Texts :
              (Has(sel["curso"], v) /\ ~Has(options["curso"], v))
                 => Has(sel'["curso"], v)]_vars

\* an upload, or the refresh its handler awaits after it, is pending
UploadPending ==
  \/ posts # {}
  \/ \E r \in optReqs : r.by = "upload"
  \/ \E c \in cycles : c.upload /\ ~c.done

\* C34: at most one upload is in flight -- the upload button is disabled
\* exactly while an upload or the refresh that follows it is pending: from
\* the click until the handler has finished on whichever path, so that a
\* second upload cannot start meanwhile and the button is not left disabled
\* once nothing is pending.
C34_OneUploadAtATime ==
  /\ Cardinality(posts) <= 1
  /\ UploadPending => btnDisabled
  /\ btnDisabled => UploadPending

\* C35: the message "Painel atualizado com os novos dados." is shown only
\* after a follow-up load that succeeded -- when the load cycle the upload
\* handler awaits settles by a failure, the message on screen after that
\* step is the load error and not the success message.
C35_PanelUpdatedOnlyAfterSuccess ==
  [][\A c \in cycles :
        (FailsNow(c) /\ c.then = "upload")
          => (statusLine'.text = "loadError" /\ statusLine'.cls = "error")]_vars

\* C36: a closed dropdown stays closed -- a step that closes a dropdown
\* (Escape, an outside mousedown, the Clear button) leaves no timer of its
\* debounced input listener armed, so that nothing armed before the close
\* reopens it; it opens again only by a later focus or input event.
C36_ClosedStaysClosed ==
  [][\A k \in Kinds :
        (variant = "dropdown" /\ dd[k].open /\ (DdClose(k) \/ Clear))
          => (~dd'[k].open /\ ~dd'[k].timer)]_vars

\* C37: a failure of loadOptions does not prevent the load that follows
\* it -- when the options request awaited by the startup handler or by the
\* Reload handler fails, the handler goes on and issues the load cycle.
C37_LoadFollowsFailedOptions ==
  [][\A r \in optReqs : \A out \in Fails :
        (r.by \in {"init", "reload"} /\ r.awaited /\ OptionsResponse(r, out))
          => (epoch' = epoch + 1 /\ \E c \in cycles' : c.id = epoch')]_vars

====
